---- MODULE Spec2Model ----
\* go/runtime buildpack (cmd/go/runtime/main.go): version resolution, cache
\* validation against the layer metadata and archive installation, as a
\* state machine over one layer that outlives the builds run against it.
EXTENDS Integers, Sequences, FiniteSets, TLC

\* ---------------------------------------------------------------- bounds
\* Files in one toolchain archive.
NFiles == 2
\* Longest release catalog the remote endpoint serves.
MaxCatalogLen == 2

\* ------------------------------------------------------------- strings
\* A string is a sequence of tokens; "" is <<>>. Comparison is element-wise,
\* which is Go's byte-wise == on strings.
Empty == <<>>
GoPrefix == <<"g", "o">>
V1 == <<"1">>
V2 == <<"2">>
GoV1 == <<"g", "o", "1">>
GoV2 == <<"g", "o", "2">>

\* Constants of main.go:32-40.
goVersionURL == <<"https://golang.org/dl/?mode=json">>
goAltVersionURL == <<"https://golang.google.cn/dl/?mode=json">>
StatusOK == 200

\* fmt.Sprintf(goURL, version): the template with %s replaced by version.
goURL(v) == <<"https://dl.google.com/go/go">> \o v \o <<".linux-amd64.tar.gz">>
goAltURL(v) == <<"https://golang.google.cn/dl/go">> \o v \o <<".linux-amd64.tar.gz">>

\* strings.TrimPrefix(s, "go"): s without the leading "go" when it has one.
TrimPrefix(s) ==
  IF Len(s) >= Len(GoPrefix) /\ SubSeq(s, 1, Len(GoPrefix)) = GoPrefix
  THEN SubSeq(s, Len(GoPrefix) + 1, Len(s))
  ELSE s

\* ------------------------------------------------------------- inputs
\* Values of the override environment variable (env.RuntimeVersion); one of
\* them carries the "go" prefix, which the override keeps verbatim.
OverrideValues == {Empty, V1, GoV1}
\* Results of golang.GoModVersion: empty when go.mod declares nothing.
ManifestValues == {Empty, V2}
\* Results of golang.DetectNetwork.
DefaultUserNetwork == "default"
AlternativeUserNetwork == "alternative"
Networks == {DefaultUserNetwork, AlternativeUserNetwork}
\* HTTP status codes an archive probe can answer.
StatusCodes == {StatusOK, 404, 503}

\* A decoded release record (goReleases element), and the catalog bodies
\* the endpoint can answer: a JSON array of records, a body that does not
\* decode, or no answer at all (the curl subprocess fails).
ReleaseVersions == {GoPrefix, GoV1, GoV2, V2}
Releases == [Version : ReleaseVersions, Stable : BOOLEAN]
RECURSIVE SeqsUpTo(_, _)
SeqsUpTo(S, n) ==
  IF n = 0 THEN {<<>>}
  ELSE LET shorter == SeqsUpTo(S, n - 1)
       IN shorter \cup {Append(s, x) : s \in {t \in shorter : Len(t) = n - 1}, x \in S}
Malformed == [kind |-> "malformed", releases |-> <<>>]
Unreachable == [kind |-> "unreachable", releases |-> <<>>]
Json(rs) == [kind |-> "json", releases |-> rs]
Catalogs == {Json(rs) : rs \in SeqsUpTo(Releases, MaxCatalogLen)} \cup {Malformed, Unreachable}
\* The inputs of the builds run one after another against one layer. The
\* layer sees the catalog only through the version resolved from it, so one
\* catalog per outcome is enough there: a version, a parse error, a failed
\* fetch.
LayerOverrides == {Empty, GoV1}
LayerCatalogs == {Json(<<[Version |-> GoV1, Stable |-> TRUE]>>), Malformed, Unreachable}

\* --------------------------------------------------------------- errors
NoError == [kind |-> "nil"]
DecodeError == [kind |-> "parsing JSON response from URL", url |-> goVersionURL]
NoStableError == [kind |-> "parsing latest stable version from", url |-> goVersionURL]
ExecError == [kind |-> "exec"]
Wrap(cause) == [kind |-> "getting latest version", cause |-> cause]
UserError(v, url, code) ==
  [kind |-> "UserError", version |-> v, url |-> url, status |-> code,
   hint |-> "env.RuntimeVersion"]

\* ------------------------------------------------- version resolution
\* The scan without the test of release.Stable.
RECURSIVE scanReleasesAnyRecord(_, _)
scanReleasesAnyRecord(releases, i) ==
  IF i > Len(releases) THEN [version |-> Empty, err |-> NoStableError]
  ELSE IF TrimPrefix(releases[i].Version) # Empty
       THEN [version |-> TrimPrefix(releases[i].Version), err |-> NoError]
       ELSE scanReleasesAnyRecord(releases, i + 1)

\* The scan giving up at the first stable record whose version is empty
\* once the prefix is trimmed.
RECURSIVE scanReleasesStopsAtEmpty(_, _)
scanReleasesStopsAtEmpty(releases, i) ==
  IF i > Len(releases) THEN [version |-> Empty, err |-> NoStableError]
  ELSE IF ~releases[i].Stable THEN scanReleasesStopsAtEmpty(releases, i + 1)
  ELSE IF TrimPrefix(releases[i].Version) # Empty
       THEN [version |-> TrimPrefix(releases[i].Version), err |-> NoError]
       ELSE [version |-> Empty, err |-> NoStableError]

\* The scan returning the first stable record's trimmed version, empty or
\* not.
RECURSIVE scanReleasesKeepsEmpty(_, _)
scanReleasesKeepsEmpty(releases, i) ==
  IF i > Len(releases) THEN [version |-> Empty, err |-> NoStableError]
  ELSE IF ~releases[i].Stable THEN scanReleasesKeepsEmpty(releases, i + 1)
  ELSE [version |-> TrimPrefix(releases[i].Version), err |-> NoError]

\* The loop of parseVersionJSON over releases[i..]: the first stable
\* record whose version is non-empty after TrimPrefix.
RECURSIVE scanReleases(_, _)
scanReleases(releases, i) ==
  IF i > Len(releases) THEN [version |-> Empty, err |-> NoStableError]
  ELSE IF ~releases[i].Stable THEN scanReleases(releases, i + 1)
  ELSE IF TrimPrefix(releases[i].Version) # Empty
       THEN [version |-> TrimPrefix(releases[i].Version), err |-> NoError]
       ELSE scanReleases(releases, i + 1)

\* parseVersionJSON(jsonStr): json.Unmarshal, then the scan.
parseVersionJSON(body) ==
  IF body.kind = "malformed" THEN [version |-> Empty, err |-> DecodeError]
  ELSE scanReleases(body.releases, 1)

\* latestGoVersion always fetching the primary catalog URL.
latestGoVersionPrimaryOnly(network, catalog) ==
  IF catalog.kind = "unreachable"
  THEN [version |-> Empty, err |-> ExecError, exited |-> TRUE,
        fetched |-> <<goVersionURL>>]
  ELSE [version |-> parseVersionJSON(catalog).version,
        err |-> parseVersionJSON(catalog).err, exited |-> FALSE,
        fetched |-> <<goVersionURL>>]

\* latestGoVersion: the catalog URL by network, the curl subprocess, the
\* parse of its stdout. ctx.Exec has no error result: a failing subprocess
\* ends the build inside Exec (exited), and nothing is parsed.
latestGoVersion(network, catalog) ==
  LET finalGoVersionURL ==
        IF network = AlternativeUserNetwork THEN goAltVersionURL ELSE goVersionURL
  IN IF catalog.kind = "unreachable"
     THEN [version |-> Empty, err |-> ExecError, exited |-> TRUE,
           fetched |-> <<finalGoVersionURL>>]
     ELSE [version |-> parseVersionJSON(catalog).version,
           err |-> parseVersionJSON(catalog).err, exited |-> FALSE,
           fetched |-> <<finalGoVersionURL>>]

\* runtimeVersion asking go.mod before the override.
runtimeVersionGoModFirst(env, gomod, network, catalog) ==
  IF gomod # Empty
  THEN [version |-> gomod, err |-> NoError, exited |-> FALSE,
        source |-> "go.mod", fetched |-> <<>>]
  ELSE IF env # Empty
  THEN [version |-> env, err |-> NoError, exited |-> FALSE,
        source |-> "env", fetched |-> <<>>]
  ELSE LET r == latestGoVersion(network, catalog)
       IN [version |-> r.version,
           err |-> IF r.exited \/ r.err.kind = "nil" THEN r.err ELSE Wrap(r.err),
           exited |-> r.exited,
           source |-> IF r.err.kind = "nil" THEN "latest" ELSE "none",
           fetched |-> r.fetched]

\* runtimeVersion asking the catalog before go.mod, go.mod only when the
\* catalog gives nothing.
runtimeVersionLatestFirst(env, gomod, network, catalog) ==
  IF env # Empty
  THEN [version |-> env, err |-> NoError, exited |-> FALSE,
        source |-> "env", fetched |-> <<>>]
  ELSE LET r == latestGoVersion(network, catalog)
       IN IF ~r.exited /\ r.err.kind = "nil"
          THEN [version |-> r.version, err |-> NoError, exited |-> FALSE,
                source |-> "latest", fetched |-> r.fetched]
          ELSE IF gomod # Empty
          THEN [version |-> gomod, err |-> NoError, exited |-> FALSE,
                source |-> "go.mod", fetched |-> r.fetched]
          ELSE [version |-> Empty,
                err |-> IF r.exited THEN r.err ELSE Wrap(r.err),
                exited |-> r.exited, source |-> "none", fetched |-> r.fetched]

\* runtimeVersion with the catalog lookup hoisted above the precedence
\* chain: the latest version is fetched first and used only as a fallback.
runtimeVersionEagerFetch(env, gomod, network, catalog) ==
  LET r == latestGoVersion(network, catalog)
  IN IF env # Empty
     THEN [version |-> env, err |-> NoError, exited |-> FALSE,
           source |-> "env", fetched |-> r.fetched]
     ELSE IF gomod # Empty
     THEN [version |-> gomod, err |-> NoError, exited |-> FALSE,
           source |-> "go.mod", fetched |-> r.fetched]
     ELSE IF r.exited
     THEN [version |-> Empty, err |-> r.err, exited |-> TRUE,
           source |-> "none", fetched |-> r.fetched]
     ELSE IF r.err.kind # "nil"
     THEN [version |-> Empty, err |-> Wrap(r.err), exited |-> FALSE,
           source |-> "none", fetched |-> r.fetched]
     ELSE [version |-> r.version, err |-> NoError, exited |-> FALSE,
           source |-> "latest", fetched |-> r.fetched]

\* runtimeVersion returning latestGoVersion's error as it is.
runtimeVersionUnwrapped(env, gomod, network, catalog) ==
  IF env # Empty
  THEN [version |-> env, err |-> NoError, exited |-> FALSE,
        source |-> "env", fetched |-> <<>>]
  ELSE IF gomod # Empty
  THEN [version |-> gomod, err |-> NoError, exited |-> FALSE,
        source |-> "go.mod", fetched |-> <<>>]
  ELSE LET r == latestGoVersion(network, catalog)
       IN [version |-> r.version, err |-> r.err, exited |-> r.exited,
           source |-> IF r.err.kind = "nil" THEN "latest" ELSE "none",
           fetched |-> r.fetched]

\* runtimeVersion: override, then go.mod, then the latest stable release.
\* source names the log line emitted; fetched the catalog requests issued.
runtimeVersion(env, gomod, network, catalog) ==
  IF env # Empty
  THEN [version |-> env, err |-> NoError, exited |-> FALSE,
        source |-> "env", fetched |-> <<>>]
  ELSE IF gomod # Empty
  THEN [version |-> gomod, err |-> NoError, exited |-> FALSE,
        source |-> "go.mod", fetched |-> <<>>]
  ELSE LET r == latestGoVersion(network, catalog)
       IN IF r.exited
          THEN [version |-> Empty, err |-> r.err, exited |-> TRUE,
                source |-> "none", fetched |-> r.fetched]
          ELSE IF r.err.kind # "nil"
          THEN [version |-> Empty, err |-> Wrap(r.err), exited |-> FALSE,
                source |-> "none", fetched |-> r.fetched]
          ELSE [version |-> r.version, err |-> NoError, exited |-> FALSE,
                source |-> "latest", fetched |-> r.fetched]

\* ---------------------------------------------------------------- layer
\* The files the archive of version v unpacks to (tar xz --directory
\* grl.Path); both mirrors serve the same archive for a version.
Files(v) == {[version |-> v, part |-> i] : i \in 1..NFiles}
\* ctx.ClearLayer: removes every file of the layer directory; the metadata
\* store is a separate store and is left as it is.
ClearLayer(d) == {}
\* ctx.GetMetadata(grl, versionKey): the persisted value, "" when unset.
GetMetadata(m) == m

\* ---------------------------------------------------------------- state
VARIABLES
  override,         \* os.Getenv(env.RuntimeVersion) of the current build
  manifest,         \* golang.GoModVersion of the current build
  catalog,          \* what the catalog endpoint answers during the build
  meta,             \* persisted "version" metadata of the go layer
  dir,              \* files in the go layer directory
  pc,               \* position of the running build in buildFn
  network,          \* golang.DetectNetwork result, when it was asked
  source,           \* which source runtimeVersion logged
  version,          \* buildFn's version
  metaVersion,      \* buildFn's metaVersion
  cache,            \* "hit" after ctx.CacheHit, "miss" after ctx.CacheMiss
  code,             \* status of the last archive probe
  finalArchiveURL,  \* buildFn's finalArchiveURL
  err,              \* the error the build ended with
  trace,            \* collaborator calls of the current build, in order
  result,           \* how and where the current build ended
  prev,             \* result of the build before the current one
  repeat,           \* the current build has the inputs of the one before
  meta0,            \* meta when the current build started
  dir0              \* dir when the current build started

vars == <<override, manifest, catalog, meta, dir, pc, network, source, version,
          metaVersion, cache, code, finalArchiveURL, err, trace, result, prev,
          repeat, meta0, dir0>>

env == <<override, manifest, catalog>>
layer == <<meta, dir>>
locals == <<network, source, version, metaVersion, cache, code, finalArchiveURL>>
history == <<prev, repeat, meta0, dir0>>

Running == [outcome |-> "running", at |-> "none"]
\* A collaborator call: what was called, on what, and the status answered.
Event(op, arg, status) == [op |-> op, arg |-> arg, status |-> status]

\* A fresh layer, no build run yet.
Init ==
  /\ override = Empty /\ manifest = Empty /\ catalog = Unreachable
  /\ meta = Empty /\ dir = {}
  /\ pc = "idle"
  /\ network = "undetected" /\ source = "none"
  /\ version = Empty /\ metaVersion = Empty /\ cache = "none"
  /\ code = 0 /\ finalArchiveURL = Empty
  /\ err = NoError /\ trace = <<>>
  /\ result = [outcome |-> "none", at |-> "none"]
  /\ prev = [outcome |-> "none", at |-> "none"]
  /\ repeat = FALSE
  /\ meta0 = Empty /\ dir0 = {}

\* The framework invokes buildFn against the layer the earlier builds left.
StartBuild(o, m, c) ==
  /\ pc \in {"idle", "done"}
  /\ override' = o /\ manifest' = m /\ catalog' = c
  /\ repeat' = (pc = "done" /\ o = override /\ m = manifest /\ c = catalog)
  /\ prev' = result
  /\ result' = Running
  /\ meta0' = meta /\ dir0' = dir
  /\ pc' = "resolve"
  /\ network' = "undetected" /\ source' = "none"
  /\ version' = Empty /\ metaVersion' = Empty /\ cache' = "none"
  /\ code' = 0 /\ finalArchiveURL' = Empty
  /\ err' = NoError /\ trace' = <<>>
  /\ UNCHANGED layer

\* The layer requested and its metadata read before the version is
\* resolved.
ResolveAfterMetadataRead ==
  /\ pc = "resolve"
  /\ metaVersion' = GetMetadata(meta)
  /\ \E n \in Networks :
       LET r == runtimeVersion(override, manifest, n, catalog)
       IN /\ network' = IF r.fetched # <<>> THEN n ELSE "undetected"
          /\ source' = r.source
          /\ version' = r.version
          /\ err' = r.err
          /\ trace' = trace \o [i \in 1..Len(r.fetched) |-> Event("fetch", r.fetched[i], 0)]
          /\ IF r.err.kind = "nil"
             THEN pc' = "check" /\ UNCHANGED result
             ELSE pc' = "done" /\ result' = [outcome |-> "error", at |-> "resolve"]
  /\ UNCHANGED <<env, layer, cache, code, finalArchiveURL, history>>

\* buildFn lines 58-61: version, err := runtimeVersion(ctx).
Resolve ==
  /\ pc = "resolve"
  /\ \E n \in Networks :
       LET r == runtimeVersion(override, manifest, n, catalog)
       IN /\ network' = IF r.fetched # <<>> THEN n ELSE "undetected"
          /\ source' = r.source
          /\ version' = r.version
          /\ err' = r.err
          /\ trace' = trace \o [i \in 1..Len(r.fetched) |-> Event("fetch", r.fetched[i], 0)]
          /\ IF r.err.kind = "nil"
             THEN pc' = "check" /\ UNCHANGED result
             ELSE pc' = "done" /\ result' = [outcome |-> "error", at |-> "resolve"]
  /\ UNCHANGED <<env, layer, metaVersion, cache, code, finalArchiveURL, history>>

\* CheckCache comparing the versions with their "go" prefix dropped.
CheckCacheTrimmed ==
  /\ pc = "check"
  /\ metaVersion' = GetMetadata(meta)
  /\ IF TrimPrefix(version) = TrimPrefix(GetMetadata(meta))
     THEN /\ cache' = "hit"
          /\ pc' = "done"
          /\ result' = [outcome |-> "ok", at |-> "return"]
     ELSE /\ cache' = "miss"
          /\ pc' = "clear"
          /\ UNCHANGED result
  /\ UNCHANGED <<env, layer, network, source, version, code, finalArchiveURL,
                 err, trace, history>>

\* CheckCache with the else lost: the hit is marked and the installation
\* runs all the same.
CheckCacheFallsThrough ==
  /\ pc = "check"
  /\ metaVersion' = GetMetadata(meta)
  /\ cache' = IF version = GetMetadata(meta) THEN "hit" ELSE "miss"
  /\ pc' = "clear"
  /\ UNCHANGED <<env, layer, network, source, version, code, finalArchiveURL,
                 err, trace, result, history>>

\* buildFn lines 62-69: the layer, its metadata, hit or miss.
CheckCache ==
  /\ pc = "check"
  /\ metaVersion' = GetMetadata(meta)
  /\ IF version = GetMetadata(meta)
     THEN /\ cache' = "hit"
          /\ pc' = "done"
          /\ result' = [outcome |-> "ok", at |-> "return"]
     ELSE /\ cache' = "miss"
          /\ pc' = "clear"
          /\ UNCHANGED result
  /\ UNCHANGED <<env, layer, network, source, version, code, finalArchiveURL,
                 err, trace, history>>

\* The miss branch without the ctx.ClearLayer call.
ClearStepSkipped ==
  /\ pc = "clear"
  /\ trace' = Append(trace, Event("clear", Empty, 0))
  /\ pc' = "probe"
  /\ UNCHANGED <<env, layer, locals, err, result, history>>

\* buildFn line 70: ctx.ClearLayer(grl).
ClearStep ==
  /\ pc = "clear"
  /\ dir' = ClearLayer(dir)
  /\ trace' = Append(trace, Event("clear", Empty, 0))
  /\ pc' = "probe"
  /\ UNCHANGED <<env, meta, locals, err, result, history>>

\* The primary probe falling back to the alternate URL without probing it.
ProbePrimaryFallsBackUnprobed(status) ==
  /\ pc = "probe"
  /\ code' = status
  /\ trace' = Append(trace, Event("probe", goURL(version), status))
  /\ pc' = "exec"
  /\ finalArchiveURL' = IF status # StatusOK THEN goAltURL(version) ELSE goURL(version)
  /\ UNCHANGED <<env, layer, network, source, version, metaVersion, cache, err,
                 result, history>>

\* The primary probe skipped on the alternative network: the archive
\* endpoint picked by golang.DetectNetwork, as the catalog endpoint is.
ProbePrimaryByNetwork(status) ==
  /\ pc = "probe"
  /\ IF network = AlternativeUserNetwork
     THEN /\ pc' = "probeAlt"
          /\ UNCHANGED <<code, trace, finalArchiveURL>>
     ELSE /\ code' = status
          /\ trace' = Append(trace, Event("probe", goURL(version), status))
          /\ IF status # StatusOK
             THEN pc' = "probeAlt" /\ UNCHANGED finalArchiveURL
             ELSE pc' = "exec" /\ finalArchiveURL' = goURL(version)
  /\ UNCHANGED <<env, layer, network, source, version, metaVersion, cache, err,
                 result, history>>

\* buildFn lines 72-76, 82-84: probe of the primary archive URL.
ProbePrimary(status) ==
  /\ pc = "probe"
  /\ code' = status
  /\ trace' = Append(trace, Event("probe", goURL(version), status))
  /\ IF status # StatusOK
     THEN pc' = "probeAlt" /\ UNCHANGED finalArchiveURL
     ELSE pc' = "exec" /\ finalArchiveURL' = goURL(version)
  /\ UNCHANGED <<env, layer, network, source, version, metaVersion, cache, err,
                 result, history>>

\* The alternate probe with its status kept in a variable of its own, the
\* error built from the primary URL and the primary probe's status.
ProbeAltReportsPrimary(status) ==
  /\ pc = "probeAlt"
  /\ UNCHANGED code
  /\ trace' = Append(trace, Event("probe", goAltURL(version), status))
  /\ IF status # StatusOK
     THEN /\ err' = UserError(version, goURL(version), code)
          /\ pc' = "done"
          /\ result' = [outcome |-> "error", at |-> "probeAlt"]
          /\ UNCHANGED finalArchiveURL
     ELSE /\ finalArchiveURL' = goAltURL(version)
          /\ pc' = "exec"
          /\ UNCHANGED <<err, result>>
  /\ UNCHANGED <<env, layer, network, source, version, metaVersion, cache,
                 history>>

\* The alternate probe dropping the version metadata when it fails, to
\* force the next build to reinstall.
ProbeAltFailureDropsMetadata(status) ==
  /\ pc = "probeAlt"
  /\ code' = status
  /\ trace' = Append(trace, Event("probe", goAltURL(version), status))
  /\ IF status # StatusOK
     THEN /\ err' = UserError(version, goAltURL(version), status)
          /\ pc' = "done"
          /\ result' = [outcome |-> "error", at |-> "probeAlt"]
          /\ meta' = Empty
          /\ UNCHANGED finalArchiveURL
     ELSE /\ finalArchiveURL' = goAltURL(version)
          /\ pc' = "exec"
          /\ UNCHANGED <<err, result, meta>>
  /\ UNCHANGED <<env, dir, network, source, version, metaVersion, cache,
                 history>>

\* buildFn lines 77-81: probe of the alternate archive URL.
ProbeAlt(status) ==
  /\ pc = "probeAlt"
  /\ code' = status
  /\ trace' = Append(trace, Event("probe", goAltURL(version), status))
  /\ IF status # StatusOK
     THEN /\ err' = UserError(version, goAltURL(version), status)
          /\ pc' = "done"
          /\ result' = [outcome |-> "error", at |-> "probeAlt"]
          /\ UNCHANGED finalArchiveURL
     ELSE /\ finalArchiveURL' = goAltURL(version)
          /\ pc' = "exec"
          /\ UNCHANGED <<err, result>>
  /\ UNCHANGED <<env, layer, network, source, version, metaVersion, cache,
                 history>>

\* buildFn lines 86-89: curl | tar into the layer directory. The pipeline
\* either unpacks the whole archive, or fails having unpacked some of it,
\* and a failing subprocess ends the build inside ctx.Exec.
ExecInstall ==
  /\ pc = "exec"
  /\ trace' = Append(trace, Event("exec", finalArchiveURL, 0))
  /\ \/ /\ dir' = dir \cup Files(version)
        /\ pc' = "setmeta"
        /\ UNCHANGED <<err, result>>
     \/ /\ \E part \in SUBSET Files(version) : dir' = dir \cup part
        /\ err' = ExecError
        /\ pc' = "done"
        /\ result' = [outcome |-> "error", at |-> "exec"]
  /\ UNCHANGED <<env, meta, locals, history>>

\* The end of the miss branch without the metadata write.
ReturnWithoutMetadata ==
  /\ pc = "setmeta"
  /\ pc' = "done"
  /\ result' = [outcome |-> "ok", at |-> "return"]
  /\ UNCHANGED <<env, layer, locals, err, trace, history>>

\* buildFn lines 90-93: ctx.SetMetadata(grl, versionKey, version); return nil.
SetMetadataStep ==
  /\ pc = "setmeta"
  /\ meta' = version
  /\ trace' = Append(trace, Event("set", version, 0))
  /\ pc' = "done"
  /\ result' = [outcome |-> "ok", at |-> "return"]
  /\ UNCHANGED <<env, dir, locals, err, history>>

\* The build process is killed (section 5: process-level termination) at
\* whatever step it has reached; killed inside the curl | tar pipeline it
\* leaves the files unpacked so far.
Interrupt ==
  /\ pc \in {"resolve", "check", "clear", "probe", "probeAlt", "exec", "setmeta"}
  /\ \E part \in SUBSET Files(version) :
       /\ pc # "exec" => part = {}
       /\ dir' = dir \cup part
  /\ pc' = "done"
  /\ result' = [outcome |-> "interrupted", at |-> pc]
  /\ UNCHANGED <<env, meta, locals, err, trace, history>>

Next ==
  \/ \E o \in LayerOverrides, m \in ManifestValues, c \in LayerCatalogs : StartBuild(o, m, c)
  \/ Resolve
  \/ CheckCache
  \/ ClearStep
  \/ \E status \in StatusCodes : ProbePrimary(status)
  \/ \E status \in StatusCodes : ProbeAlt(status)
  \/ ExecInstall
  \/ SetMetadataStep
  \/ Interrupt

\* Every build against the layer, one after another.
Spec == Init /\ [][Next]_vars

\* One build against a fresh layer, for every input of the resolver.
InitResolve ==
  /\ override \in OverrideValues /\ manifest \in ManifestValues
  /\ catalog \in Catalogs
  /\ meta = Empty /\ dir = {}
  /\ pc = "resolve"
  /\ network = "undetected" /\ source = "none"
  /\ version = Empty /\ metaVersion = Empty /\ cache = "none"
  /\ code = 0 /\ finalArchiveURL = Empty
  /\ err = NoError /\ trace = <<>>
  /\ result = Running
  /\ prev = [outcome |-> "none", at |-> "none"]
  /\ repeat = FALSE
  /\ meta0 = Empty /\ dir0 = {}

NextResolve ==
  \/ Resolve
  \/ CheckCache
  \/ ClearStep
  \/ \E status \in StatusCodes : ProbePrimary(status)
  \/ \E status \in StatusCodes : ProbeAlt(status)
  \/ ExecInstall
  \/ SetMetadataStep
  \/ Interrupt

SpecResolve == InitResolve /\ [][NextResolve]_vars

\* ------------------------------------------------------------ properties
HasOp(ops) == \E i \in DOMAIN trace : trace[i].op \in ops
\* The build has ended: returned, failed or been killed.
Ended == pc = "done"
Returned == pc = "done" /\ result.outcome = "ok"

\* C1: whenever a build has ended (returned, failed or interrupted), the
\* persisted version metadata names only a version whose archive is
\* completely unpacked in the layer directory.
C1_MetadataNamesInstalledVersion ==
  (Ended /\ meta # Empty) => Files(meta) \subseteq dir

\* C2: the build marks a cache hit iff the version resolved equals the
\* persisted metadata value exactly (an empty persisted value never
\* matches); after a miss the layer directory is cleared before any
\* archive probe, download or metadata write, and is empty during the
\* probes.
C2_HitIffExactMatchElseClearFirst ==
  /\ cache # "none" => (cache = "hit" <=> version = meta0)
  /\ (cache # "none" /\ meta0 = Empty) => cache = "miss"
  /\ \A i \in DOMAIN trace :
       trace[i].op \in {"probe", "exec", "set"} =>
         \E j \in 1..(i - 1) : trace[j].op = "clear"
  /\ pc \in {"probe", "probeAlt", "exec"} => dir = {}
  /\ (cache = "miss" /\ pc \in {"probe", "probeAlt", "exec", "setmeta"}) => HasOp({"clear"})

\* C2 witness: a miss against a layer that held another version's files,
\* now cleared and about to be probed.
C2_Witness ==
  /\ pc = "probe" /\ cache = "miss"
  /\ meta0 # Empty /\ dir0 # {} /\ dir = {}
  /\ TrimPrefix(meta0) = TrimPrefix(version)

\* The build made no call to either archive endpoint.
NoArchiveCalls == ~HasOp({"probe", "exec"})

Resolved ==
  /\ pc \notin {"idle", "resolve"}
  /\ ~(result.outcome = "interrupted" /\ result.at = "resolve")
ResolveFailed == result = [outcome |-> "error", at |-> "resolve"]

\* C4: with a non-empty override, runtimeVersion returns the override
\* verbatim and no error, whatever go.mod declares and whatever the catalog
\* endpoint would answer.
C4_OverrideWins ==
  (Resolved /\ override # Empty) => (version = override /\ ~ResolveFailed)

\* C4 witness: an override with the "go" prefix, against a go.mod version
\* and an unreachable catalog.
C4_Witness ==
  /\ Resolved /\ override = GoV1 /\ manifest = V2
  /\ catalog = Unreachable /\ version = GoV1

\* C5: with no override and a non-empty go.mod version, runtimeVersion
\* returns the go.mod version and no error, whatever the catalog endpoint
\* would answer.
C5_ManifestWinsOverCatalog ==
  (Resolved /\ override = Empty /\ manifest # Empty)
  => (version = manifest /\ ~ResolveFailed)

\* C5 witness: a go.mod version against a catalog whose first stable
\* release is another version.
C5_Witness ==
  /\ Resolved /\ override = Empty /\ manifest = V2
  /\ catalog = Json(<<[Version |-> GoV1, Stable |-> TRUE]>>) /\ version = V2

\* v is raw without its "go" prefix (raw itself when it has none).
IsStripped(raw, v) ==
  IF Len(raw) >= 2 /\ raw[1] = "g" /\ raw[2] = "o"
  THEN raw = <<"g", "o">> \o v
  ELSE raw = v
\* The catalog was fetched and decoded, and nothing ranks above it.
CatalogDecides == Resolved /\ override = Empty /\ manifest = Empty /\ catalog.kind = "json"
ParseFailed == ResolveFailed /\ err = Wrap(NoStableError)

\* C6 as stated: the version resolved from the catalog is the first stable
\* record's version with the prefix stripped, and resolution fails with the
\* parse error iff the catalog has no stable record.
C6_FirstStableRecord ==
  CatalogDecides =>
    LET rs == catalog.releases
        stable == {i \in DOMAIN rs : rs[i].Stable}
    IN IF stable = {} THEN ParseFailed
       ELSE LET first == CHOOSE i \in stable : \A j \in stable : i <= j
            IN ~ResolveFailed /\ IsStripped(rs[first].Version, version)

\* C6 amended: the version resolved from the catalog is that of the first
\* stable record whose version is non-empty once the prefix is stripped;
\* when the catalog has no such record, resolution fails with the parse
\* error.
C6_FirstUsableStableRecord ==
  CatalogDecides =>
    LET rs == catalog.releases
        usable == {i \in DOMAIN rs : rs[i].Stable /\ ~IsStripped(rs[i].Version, Empty)}
    IN IF usable = {} THEN ParseFailed
       ELSE LET first == CHOOSE i \in usable : \A j \in usable : i <= j
            IN ~ResolveFailed /\ IsStripped(rs[first].Version, version)

\* C6 witness: the catalog [go2 unstable, go1 stable] resolves to 1.
C6_Witness ==
  /\ CatalogDecides /\ version = V1 /\ ~ResolveFailed
  /\ catalog = Json(<<[Version |-> GoV2, Stable |-> FALSE],
                      [Version |-> GoV1, Stable |-> TRUE]>>)

\* C7: a build fails in the archive probes only after the alternate URL
\* was probed, right after a primary probe that answered other than 200;
\* the user error then names the alternate URL, the alternate probe's
\* status (not 200) and the override variable. A primary probe that
\* answered other than 200 is followed by the alternate probe, not by a
\* failure.
C7_AlternateProbedBeforeFailing ==
  LET n == Len(trace)
  IN /\ (result.outcome = "error" /\ result.at \in {"probe", "probeAlt"}) =>
          /\ result.at = "probeAlt"
          /\ n >= 2
          /\ trace[n - 1] = Event("probe", goURL(version), trace[n - 1].status)
          /\ trace[n - 1].status # StatusOK
          /\ trace[n].op = "probe" /\ trace[n].arg = goAltURL(version)
          /\ trace[n].status # StatusOK
          /\ err = [kind |-> "UserError", version |-> version,
                    url |-> goAltURL(version), status |-> trace[n].status,
                    hint |-> "env.RuntimeVersion"]
     /\ (/\ n >= 1 /\ trace[n].op = "probe" /\ trace[n].arg = goURL(version)
         /\ trace[n].status # StatusOK /\ result.outcome # "interrupted")
        => (pc = "probeAlt" /\ result.outcome = "running")
     /\ err.kind = "UserError" => (result.outcome = "error" /\ result.at = "probeAlt")

\* C7 witness: the primary answered 404, the alternate 503, and the build
\* failed naming 503.
C7_Witness ==
  /\ result = [outcome |-> "error", at |-> "probeAlt"]
  /\ Len(trace) >= 2
  /\ trace[Len(trace) - 1].status = 404
  /\ trace[Len(trace)].status = 503
  /\ err.kind = "UserError" /\ err.status = 503

\* C8: a build that marked a cache hit returns at once without error: it
\* makes no layer clear, no archive probe, no download and no metadata
\* write, and leaves the layer directory and the metadata as they were when
\* it started.
C8_HitLeavesLayerAlone ==
  cache = "hit" =>
    /\ Returned
    /\ ~HasOp({"clear", "probe", "exec", "set"})
    /\ meta = meta0 /\ dir = dir0

\* C8 witness: a hit on a layer holding the resolved version's files.
C8_Witness ==
  /\ cache = "hit" /\ Returned
  /\ meta0 = version /\ dir0 = Files(version) /\ dir = Files(version)

\* C9: after a build that missed and returned without error, the metadata
\* is the resolved version and the layer directory holds exactly the files
\* of that version's archive, none from before the miss.
C9_MissInstallsExactlyResolvedVersion ==
  (cache = "miss" /\ Returned) => (meta = version /\ dir = Files(version))

\* C9 witness: a layer holding another version's files and metadata, after
\* a miss and a completed installation.
C9_Witness ==
  /\ cache = "miss" /\ Returned
  /\ meta0 # Empty /\ meta0 # version /\ dir0 = Files(meta0)
  /\ meta = version /\ dir = Files(version)

\* C10: when the build before was interrupted after the archive was
\* unpacked and before the metadata write, the layer holds files its
\* metadata does not name, and the build that follows is a miss that clears
\* the layer before installing, whatever version it resolves.
C10_MissAfterInterruptedInstall ==
  (/\ prev = [outcome |-> "interrupted", at |-> "setmeta"]
   /\ cache # "none")
  => /\ cache = "miss"
     /\ pc \in {"probe", "probeAlt", "exec", "setmeta"} => HasOp({"clear"})

\* C11: the catalog is requested, and the network asked for, only in a
\* build with an empty override and an empty go.mod version; with either of
\* them non-empty the build issues no catalog request and never asks
\* golang.DetectNetwork.
C11_CatalogOnlyAsLastSource ==
  /\ (override # Empty \/ manifest # Empty) =>
       (~HasOp({"fetch"}) /\ network = "undetected")
  /\ (HasOp({"fetch"}) \/ network # "undetected") =>
       (override = Empty /\ manifest = Empty)

\* C11 witness: a build resolved from go.mod, with a catalog that would
\* have answered, and no request made.
C11_Witness ==
  /\ Resolved /\ override = Empty /\ manifest = V2 /\ version = V2
  /\ catalog = Json(<<[Version |-> GoV1, Stable |-> TRUE]>>)
  /\ ~HasOp({"fetch"}) /\ network = "undetected"

\* The catalog lookup of the build cannot give a version: the fetch fails,
\* the body does not decode, or no stable record has a version left after
\* the prefix.
LookupFails ==
  \/ catalog.kind \in {"unreachable", "malformed"}
  \/ \A i \in DOMAIN catalog.releases :
       ~catalog.releases[i].Stable \/ IsStripped(catalog.releases[i].Version, Empty)

C13_PrimaryFirstAlternateOnlyAfter ==
  /\ \A i \in DOMAIN trace :
       /\ trace[i].op = "probe" =>
            /\ i > 1
            /\ \/ trace[i].arg = goURL(version) /\ trace[i - 1].op = "clear"
               \/ /\ trace[i].arg = goAltURL(version)
                  /\ trace[i - 1].op = "probe"
                  /\ trace[i - 1].arg = goURL(version)
                  /\ trace[i - 1].status # StatusOK
       /\ trace[i].op = "exec" =>
            /\ i > 1
            /\ trace[i - 1].op = "probe"
            /\ trace[i - 1].status = StatusOK
            /\ trace[i].arg = trace[i - 1].arg
  /\ pc \in {"exec", "setmeta"} =>
       /\ HasOp({"probe"})
       /\ \E i \in DOMAIN trace :
            /\ trace[i].op = "probe" /\ trace[i].status = StatusOK
            /\ finalArchiveURL = trace[i].arg

\* C13 witness: the primary answered 503, the alternate 200, and the
\* download ran on the alternate URL.
C13_Witness ==
  /\ Len(trace) >= 3
  /\ trace[Len(trace) - 2] = [op |-> "probe", arg |-> goURL(version), status |-> 503]
  /\ trace[Len(trace) - 1] = [op |-> "probe", arg |-> goAltURL(version), status |-> 200]
  /\ trace[Len(trace)] = [op |-> "exec", arg |-> goAltURL(version), status |-> 0]

\* C14: when the catalog lookup returns an error (the body does not decode,
\* or no stable record has a usable version), the error names the catalog
\* URL the build fetched, and the two causes give different errors.
C14_ParseErrorNamesFetchedURL ==
  (ResolveFailed /\ err.kind = "getting latest version") =>
    /\ Len(trace) = 1 /\ trace[1].op = "fetch"
    /\ err.cause.url = trace[1].arg
    /\ err.cause.url =
         IF network = AlternativeUserNetwork
         THEN <<"https://golang.google.cn/dl/?mode=json">>
         ELSE <<"https://golang.org/dl/?mode=json">>
    /\ (catalog.kind = "malformed") <=> (err.cause.kind = "parsing JSON response from URL")

\* The archive calls of the build, in order.
ArchiveCalls == SelectSeq(trace, LAMBDA e : e.op \in {"probe", "exec"})

\* C15 as stated: the archive endpoint of a build is the one its network
\* policy selects, the alternate under Alternative and the primary under
\* Default, for the probes and for the download.
C15_ArchiveEndpointByNetwork ==
  network \in Networks =>
    \A i \in DOMAIN ArchiveCalls :
      ArchiveCalls[i].arg =
        IF network = AlternativeUserNetwork THEN goAltURL(version) ELSE goURL(version)

\* C15 amended: the archive endpoint is selected by the probes, not by the
\* network policy: whatever golang.DetectNetwork answered, or unasked, the
\* first archive call is the probe of the primary endpoint, the alternate
\* endpoint appears only after the primary probe answered other than 200,
\* and the download goes to the primary endpoint iff the primary probe
\* answered 200.
C15_ArchiveEndpointByProbe ==
  LET a == ArchiveCalls
  IN /\ Len(a) >= 1 => (a[1].op = "probe" /\ a[1].arg = goURL(version))
     /\ \A i \in DOMAIN a :
          /\ a[i].arg = goAltURL(version) => a[1].status # StatusOK
          /\ a[i].op = "exec" =>
               a[i].arg = IF a[1].status = StatusOK THEN goURL(version) ELSE goAltURL(version)
     /\ pc \in {"probeAlt", "exec", "setmeta"} => Len(a) >= 1

\* C15 witness: a build on the alternative network that downloads from the
\* primary endpoint.
C15_Witness ==
  /\ network = AlternativeUserNetwork
  /\ Len(ArchiveCalls) = 2
  /\ ArchiveCalls[1] = [op |-> "probe", arg |-> goURL(version), status |-> 200]
  /\ ArchiveCalls[2] = [op |-> "exec", arg |-> goURL(version), status |-> 0]

\* C16: a catalog lookup issues exactly one request, to the alternate
\* catalog URL exactly when golang.DetectNetwork answered
\* AlternativeUserNetwork and to the primary catalog URL otherwise; a build
\* without a lookup issues none.
C16_CatalogEndpointByNetwork ==
  LET fetches == SelectSeq(trace, LAMBDA e : e.op = "fetch")
  IN /\ Len(fetches) <= 1
     /\ (Resolved /\ override = Empty /\ manifest = Empty) <=> Len(fetches) = 1
     /\ Len(fetches) = 1 =>
          /\ network \in Networks
          /\ trace[1] = fetches[1]
          /\ network = AlternativeUserNetwork
               <=> fetches[1].arg = <<"https://golang.google.cn/dl/?mode=json">>
          /\ network # AlternativeUserNetwork
               <=> fetches[1].arg = <<"https://golang.org/dl/?mode=json">>

\* C16 witness: a lookup on the alternative network, requested from the
\* alternate catalog URL.
C16_Witness ==
  /\ Resolved /\ network = AlternativeUserNetwork /\ source = "latest"
  /\ trace[1] = [op |-> "fetch", arg |-> <<"https://golang.google.cn/dl/?mode=json">>,
                 status |-> 0]

\* C17: a version resolved from the catalog is non-empty and is the
\* stripped version of a stable record before which every stable record
\* strips to the empty string (those are skipped); unstable records before
\* it do not matter, a stable record that strips to a non-empty version
\* anywhere in the catalog keeps the scan from failing, and a catalog of
\* unstable records only gives no version at all.
C17_EmptyStableRecordsSkipped ==
  CatalogDecides =>
    LET rs == catalog.releases
    IN /\ ~ResolveFailed =>
            /\ version # Empty
            /\ \E i \in DOMAIN rs :
                 /\ rs[i].Stable
                 /\ IsStripped(rs[i].Version, version)
                 /\ \A j \in 1..(i - 1) :
                      rs[j].Stable => IsStripped(rs[j].Version, Empty)
       /\ (\E i \in DOMAIN rs : rs[i].Stable /\ ~IsStripped(rs[i].Version, Empty))
            => ~ResolveFailed
       /\ (\A i \in DOMAIN rs : ~rs[i].Stable) => ResolveFailed

\* C17 witness: the catalog [go stable, go1 stable] resolves to 1, the
\* record that strips to nothing skipped.
C17_Witness ==
  /\ CatalogDecides /\ ~ResolveFailed /\ version = V1
  /\ catalog = Json(<<[Version |-> GoPrefix, Stable |-> TRUE],
                      [Version |-> GoV1, Stable |-> TRUE]>>)

\* C18: a version runtimeVersion returns without error is non-empty,
\* whichever source it came from, and so a build against a layer with no
\* persisted version metadata is never a cache hit.
C18_ResolvedVersionNonEmpty ==
  /\ (Resolved /\ ~ResolveFailed) =>
       /\ version # Empty
       /\ source \in {"env", "go.mod", "latest"}
  /\ (cache # "none" /\ meta0 = Empty) => cache = "miss"

\* C18 witness: a fresh layer and a catalog whose first stable record
\* strips to nothing; the build resolves 2 from the next one and misses.
C18_Witness ==
  /\ meta0 = Empty /\ cache = "miss" /\ source = "latest" /\ version = V2
  /\ catalog = Json(<<[Version |-> GoPrefix, Stable |-> TRUE],
                      [Version |-> V2, Stable |-> TRUE]>>)

\* C19: a build that fails because both archive probes answered other than
\* 200 has run no download and written no metadata: the metadata is what it
\* was when the build started, and the layer directory is empty, cleared by
\* this build.
C19_ProbeFailureKeepsMetadataClearsLayer ==
  result = [outcome |-> "error", at |-> "probeAlt"] =>
    /\ cache = "miss"
    /\ ~HasOp({"exec", "set"})
    /\ HasOp({"clear"})
    /\ meta = meta0
    /\ dir = {}

\* C19 witness: the failure on a layer that held an installed version.
C19_Witness ==
  /\ result = [outcome |-> "error", at |-> "probeAlt"]
  /\ err.kind = "UserError"
  /\ meta0 # Empty /\ dir0 = Files(meta0) /\ meta = meta0 /\ dir = {}

\* C20: a build whose version resolution fails ends there: the layer's
\* metadata has not been read or written, no hit or miss is marked, no
\* clear, probe, download or metadata write is made, and the layer
\* directory and metadata are what they were when the build started.
C20_ResolveFailureLeavesLayerAlone ==
  ResolveFailed =>
    /\ pc = "done"
    /\ cache = "none" /\ metaVersion = Empty
    /\ ~HasOp({"clear", "probe", "exec", "set"})
    /\ meta = meta0 /\ dir = dir0

\* C20 witness: a failed resolution on a layer that holds an installed
\* version.
C20_Witness ==
  /\ ResolveFailed /\ err.kind = "getting latest version"
  /\ meta0 # Empty /\ dir0 = Files(meta0) /\ meta = meta0 /\ dir = dir0

TypeOK ==
  /\ override \in OverrideValues /\ manifest \in ManifestValues
  /\ catalog \in Catalogs \cup LayerCatalogs
  /\ pc \in {"idle", "resolve", "check", "clear", "probe", "probeAlt", "exec",
             "setmeta", "done"}
  /\ cache \in {"none", "hit", "miss"}

====
